---- MODULE Spec2Model ----
(***************************************************************************)
(* Round robin pairing bot (bot.py).                                       *)
(*                                                                         *)
(* Spec    : generate_round_robin, run one loop iteration per step on a    *)
(*           heap of list objects, called repeatedly on one caller list.   *)
(* SpecMsg : handle_message, one incoming text message per behaviour.      *)
(***************************************************************************)
EXTENDS Integers, Sequences, FiniteSets, TLC

VARIABLES
    given,            \* the participant list as the caller built it (never written)
    heap,             \* list objects; heap[1] is the caller's list `players`
    players_list,     \* reference (index into heap) bound to players_list; 0 = unbound
    num_players,      \* local num_players
    rounds,           \* local rounds
    byes_per_round,   \* local byes_per_round
    round_num,        \* loop variable of the outer for loop
    pc,               \* "call" | "loop" | "done" in Spec, "recv" | "replied" in SpecMsg
    ret,              \* value returned by the latest call
    first,            \* value returned by the first call on this list
    calls,            \* completed calls
    text,             \* update.message.text, a sequence of characters
    reply,            \* what handle_message sent back
    engine_args       \* argument lists handle_message passed to generate_round_robin

vars == <<given, heap, players_list, num_players, rounds, byes_per_round,
          round_num, pc, ret, first, calls, text, reply, engine_args>>

engineVars == <<given, heap, players_list, num_players, rounds, byes_per_round,
                round_num, ret, first, calls>>

msgVars == <<text, reply, engine_args>>

-----------------------------------------------------------------------------
(* Bounds *)

MaxN == 5

MaxCalls == 2

MaxMsgLen == 5

Names == {"Alice", "Bob", "Charlie", "David", "Eve", "BYE"}

InjSeqs(S, n) == {s \in [1..n -> S] : \A i, j \in 1..n : i # j => s[i] # s[j]}

\* lists of distinct participant names, as handle_message supplies them
Inputs == UNION {InjSeqs(Names, n) : n \in 0..MaxN}

-----------------------------------------------------------------------------
(* generate_round_robin *)

\* line 50: return [], []
NoResult == [rounds |-> <<>>, byes_per_round |-> <<>>]

\* lines 69-80: one pass of the inner loop body, i counted from 0;
\* bye_player is <<>> for None and <<name>> once bound
PairStep(acc, l, M, i) ==
    LET player1 == l[i + 1]
        player2 == l[M - i]
    IN  IF player1 # "BYE" /\ player2 # "BYE"
        THEN [acc EXCEPT !.round_pairings = Append(@, <<player1, player2>>)]
        ELSE IF player1 # "BYE"
        THEN [acc EXCEPT !.bye_player = <<player1>>]
        ELSE IF player2 # "BYE"
        THEN [acc EXCEPT !.bye_player = <<player2>>]
        ELSE acc

RECURSIVE InnerLoop(_, _, _, _)
\* lines 64-80: for i in range(num_players // 2)
InnerLoop(acc, l, M, i) ==
    IF i < M \div 2
    THEN InnerLoop(PairStep(acc, l, M, i), l, M, i + 1)
    ELSE acc

\* line 83: bye_player if bye_player else ""
ByeEntry(bye_player) ==
    IF bye_player = <<>> \/ bye_player[1] = "" THEN "" ELSE bye_player[1]

RotateClockwise(l) ==
    <<l[1]>> \o <<l[Len(l)]>> \o SubSeq(l, 2, Len(l) - 1)

\* line 87: [players_list[0]] + players_list[2:] + [players_list[1]]
Rotate(l) ==
    <<l[1]>> \o SubSeq(l, 3, Len(l)) \o <<l[2]>>

RebindInPlace(h, r) ==
    [heap |-> [h EXCEPT ![r] = Rotate(h[r])], ref |-> r]

\* line 87: the rotated list is a new object and players_list is rebound to it
Rebind(h, r) ==
    [heap |-> Append(h, Rotate(h[r])), ref |-> Len(h) + 1]

RangeRoundsOff(n) == n

\* line 63: range(num_players - 1)
RangeRounds(n) == n - 1

\* lines 52-60: bind players_list and the locals; h[1] is `players`
Setup(h) ==
    LET odd == Len(h[1]) % 2 = 1
        h2  == IF odd THEN Append(h, h[1] \o <<"BYE">>) ELSE h
        r   == IF odd THEN Len(h) + 1 ELSE 1
    IN  [heap |-> h2, players_list |-> r, num_players |-> Len(h2[r]),
         rounds |-> <<>>, byes_per_round |-> <<>>, round_num |-> 0]

\* lines 64-87: one iteration of the outer loop
LoopBody(f) ==
    LET acc == InnerLoop([round_pairings |-> <<>>, bye_player |-> <<>>],
                         f.heap[f.players_list], f.num_players, 0)
        rb  == Rebind(f.heap, f.players_list)
    IN  [heap |-> rb.heap, players_list |-> rb.ref, num_players |-> f.num_players,
         rounds |-> Append(f.rounds, acc.round_pairings),
         byes_per_round |-> Append(f.byes_per_round, ByeEntry(acc.bye_player)),
         round_num |-> f.round_num + 1]

RECURSIVE Loop(_)
\* line 63: the outer for loop
Loop(f) ==
    IF f.round_num < RangeRounds(f.num_players) THEN Loop(LoopBody(f)) ELSE f

\* lines 36-89: the function as a whole, on a fresh heap holding only `players`
generate_round_robin(players) ==
    IF Len(players) < 2
    THEN NoResult
    ELSE LET f == Loop(Setup(<<players>>))
         IN  [rounds |-> f.rounds, byes_per_round |-> f.byes_per_round]

Frame ==
    [heap |-> heap, players_list |-> players_list, num_players |-> num_players,
     rounds |-> rounds, byes_per_round |-> byes_per_round, round_num |-> round_num]

SetFrame(f) ==
    /\ heap' = f.heap
    /\ players_list' = f.players_list
    /\ num_players' = f.num_players
    /\ rounds' = f.rounds
    /\ byes_per_round' = f.byes_per_round
    /\ round_num' = f.round_num

\* lines 48-50: fewer than two players
ReturnEmpty ==
    /\ pc = "call"
    /\ Len(heap[1]) < 2
    /\ pc' = "done"
    /\ ret' = NoResult
    /\ first' = IF calls = 0 THEN NoResult ELSE first
    /\ calls' = calls + 1
    /\ UNCHANGED <<given, heap, players_list, num_players, rounds,
                   byes_per_round, round_num>>
    /\ UNCHANGED msgVars

\* lines 52-60
Enter ==
    /\ pc = "call"
    /\ Len(heap[1]) >= 2
    /\ SetFrame(Setup(heap))
    /\ pc' = "loop"
    /\ UNCHANGED <<given, ret, first, calls>>
    /\ UNCHANGED msgVars

\* lines 63-87
Iterate ==
    /\ pc = "loop"
    /\ round_num < RangeRounds(num_players)
    /\ SetFrame(LoopBody(Frame))
    /\ UNCHANGED <<given, pc, ret, first, calls>>
    /\ UNCHANGED msgVars

\* line 89: return; the locals and the lists only they referenced are gone
Return ==
    /\ pc = "loop"
    /\ ~(round_num < RangeRounds(num_players))
    /\ pc' = "done"
    /\ ret' = [rounds |-> rounds, byes_per_round |-> byes_per_round]
    /\ first' = IF calls = 0 THEN ret' ELSE first
    /\ calls' = calls + 1
    /\ heap' = <<heap[1]>>
    /\ players_list' = 0
    /\ num_players' = 0
    /\ rounds' = <<>>
    /\ byes_per_round' = <<>>
    /\ round_num' = 0
    /\ UNCHANGED given
    /\ UNCHANGED msgVars

\* the caller invokes the function again on the same list object
CallAgain ==
    /\ pc = "done"
    /\ calls < MaxCalls
    /\ pc' = "call"
    /\ UNCHANGED engineVars
    /\ UNCHANGED msgVars

Init ==
    /\ given \in Inputs
    /\ heap = <<given>>
    /\ players_list = 0
    /\ num_players = 0
    /\ rounds = <<>>
    /\ byes_per_round = <<>>
    /\ round_num = 0
    /\ pc = "call"
    /\ ret = NoResult
    /\ first = NoResult
    /\ calls = 0
    /\ text = <<>>
    /\ reply = [kind |-> "none"]
    /\ engine_args = <<>>

Next ==
    \/ ReturnEmpty
    \/ Enter
    \/ Iterate
    \/ Return
    \/ CallAgain

Spec == Init /\ [][Next]_vars

-----------------------------------------------------------------------------
(* handle_message *)

\* characters a message is made of
Alphabet == {"a", "A", "B", "Y", "E", ",", " "}

\* line 166: the keyboard button text; "[U+1F504]" stands for its one emoji
START_TEXT ==
    <<"[U+1F504]", " ", "S", "t", "a", "r", "t", " ", "N", "e", "w", " ",
      "T", "o", "u", "r", "n", "a", "m", "e", "n", "t">>

\* line 166: "/start"
START_COMMAND == <<"/", "s", "t", "a", "r", "t">>

Messages ==
    UNION {[1..n -> Alphabet] : n \in 0..MaxMsgLen}
        \cup {START_TEXT, START_COMMAND, <<" ">> \o START_TEXT \o <<" ">>}

RECURSIVE LStrip(_)
LStrip(s) == IF s # <<>> /\ Head(s) = " " THEN LStrip(Tail(s)) ELSE s

RECURSIVE RStrip(_)
RStrip(s) ==
    IF s # <<>> /\ s[Len(s)] = " " THEN RStrip(SubSeq(s, 1, Len(s) - 1)) ELSE s

\* str.strip()
strip(s) == RStrip(LStrip(s))

RECURSIVE SplitFrom(_, _, _)
SplitFrom(s, cur, out) ==
    IF s = <<>> THEN Append(out, cur)
    ELSE IF Head(s) = "," THEN SplitFrom(Tail(s), <<>>, Append(out, cur))
    ELSE SplitFrom(Tail(s), Append(cur, Head(s)), out)

\* str.split(',')
split(s) == SplitFrom(s, <<>>, <<>>)

LowerChar(c) ==
    CASE c = "A" -> "a"
      [] c = "B" -> "b"
      [] c = "Y" -> "y"
      [] c = "E" -> "e"
      [] c = "S" -> "s"
      [] c = "N" -> "n"
      [] c = "T" -> "t"
      [] OTHER -> c

\* str.lower()
lower(s) == [i \in 1..Len(s) |-> LowerChar(s[i])]

RECURSIVE StripAll(_)
StripAll(ps) ==
    IF ps = <<>> THEN <<>> ELSE <<strip(Head(ps))>> \o StripAll(Tail(ps))

NonEmpty(p) == p # <<>>

\* line 171: [p.strip() for p in message_text.split(',') if p.strip()]
ParsePlayers(message_text) == SelectSeq(StripAll(split(message_text)), NonEmpty)

RECURSIVE DedupeExactFrom(_, _, _)
DedupeExactFrom(ps, seen, unique_players) ==
    IF ps = <<>> THEN unique_players
    ELSE IF Head(ps) \notin seen
    THEN DedupeExactFrom(Tail(ps), seen \cup {Head(ps)},
                         Append(unique_players, Head(ps)))
    ELSE DedupeExactFrom(Tail(ps), seen, unique_players)

DedupeExact(players) == DedupeExactFrom(players, {}, <<>>)

RECURSIVE DedupeFrom(_, _, _)
\* lines 184-187
DedupeFrom(ps, seen, unique_players) ==
    IF ps = <<>> THEN unique_players
    ELSE IF lower(Head(ps)) \notin seen
    THEN DedupeFrom(Tail(ps), seen \cup {lower(Head(ps))},
                    Append(unique_players, Head(ps)))
    ELSE DedupeFrom(Tail(ps), seen, unique_players)

\* lines 182-187
Dedupe(players) == DedupeFrom(players, {}, <<>>)

RECURSIVE Str(_)
\* the Python string a sequence of characters stands for
Str(cs) == IF cs = <<>> THEN "" ELSE Head(cs) \o Str(Tail(cs))

StrList(ps) == [i \in 1..Len(ps) |-> Str(ps[i])]

\* line 163
MessageText == strip(text)

IsStart == MessageText = START_TEXT \/ MessageText = START_COMMAND

\* lines 166-168
HandleStart ==
    /\ pc = "recv"
    /\ IsStart
    /\ reply' = [kind |-> "usage"]
    /\ pc' = "replied"
    /\ UNCHANGED <<text, engine_args>>
    /\ UNCHANGED engineVars

\* lines 171-179
HandleTooFew ==
    /\ pc = "recv"
    /\ ~IsStart
    /\ Len(ParsePlayers(MessageText)) < 2
    /\ reply' = [kind |-> "error", why |-> "at least 2 players"]
    /\ pc' = "replied"
    /\ UNCHANGED <<text, engine_args>>
    /\ UNCHANGED engineVars

\* lines 171-194
HandleNoUnique ==
    /\ pc = "recv"
    /\ ~IsStart
    /\ Len(ParsePlayers(MessageText)) >= 2
    /\ Len(Dedupe(ParsePlayers(MessageText))) < 2
    /\ reply' = [kind |-> "error", why |-> "at least 2 unique players"]
    /\ pc' = "replied"
    /\ UNCHANGED <<text, engine_args>>
    /\ UNCHANGED engineVars

\* lines 92-129: the formatted text names the players, then each round's
\* pairings in order and its bye; an empty schedule formats as an error
format_round_robin_output(players, rs, byes) ==
    IF rs = <<>>
    THEN [kind |-> "error", why |-> "need at least 2 players"]
    ELSE [kind |-> "schedule", players |-> players, rounds |-> rs, byes |-> byes]

\* lines 171-204; generate_round_robin and format_round_robin_output raise
\* nothing on a list of two or more names, so the except branch (205-210) is
\* not taken
HandleGenerate ==
    /\ pc = "recv"
    /\ ~IsStart
    /\ Len(ParsePlayers(MessageText)) >= 2
    /\ LET unique_players == Dedupe(ParsePlayers(MessageText))
           res == generate_round_robin(StrList(unique_players))
       IN  /\ Len(unique_players) >= 2
           /\ engine_args' = Append(engine_args, unique_players)
           /\ reply' = format_round_robin_output(StrList(unique_players),
                                                 res.rounds, res.byes_per_round)
    /\ pc' = "replied"
    /\ UNCHANGED text
    /\ UNCHANGED engineVars

InitMsg ==
    /\ text \in Messages
    /\ reply = [kind |-> "none"]
    /\ engine_args = <<>>
    /\ pc = "recv"
    /\ given = <<>>
    /\ heap = <<given>>
    /\ players_list = 0
    /\ num_players = 0
    /\ rounds = <<>>
    /\ byes_per_round = <<>>
    /\ round_num = 0
    /\ ret = NoResult
    /\ first = NoResult
    /\ calls = 0

NextMsg ==
    \/ HandleStart
    \/ HandleTooFew
    \/ HandleNoUnique
    \/ HandleGenerate

SpecMsg == InitMsg /\ [][NextMsg]_vars

-----------------------------------------------------------------------------
(* Properties of generate_round_robin, checked under Spec *)

N == Len(given)

Returned == pc = "done"

Participants == {given[i] : i \in 1..N}

\* positions <<round, index>> of all pairings of a schedule
PairSlots(R) == UNION {{<<r, k>> : k \in 1..Len(R[r])} : r \in 1..Len(R)}

\* the pairings of schedule R in which a and b meet
Meetings(R, a, b) ==
    {s \in PairSlots(R) : {R[s[1]][s[2]][1], R[s[1]][s[2]][2]} = {a, b}}

\* how often p occurs in round r: as a member of a pairing or as the bye
Occurrences(R, B, r, p) ==
    Cardinality({s \in (1..Len(R[r])) \X {1, 2} : R[r][s[1]][s[2]] = p})
        + (IF B[r] = p THEN 1 ELSE 0)

\* C1: for N >= 2 distinct participants every unordered pair meets in exactly
\* one pairing of the returned schedule, N*(N-1)/2 pairings in all.
C1_Completeness ==
    (Returned /\ N >= 2) =>
        /\ \A i, j \in 1..N :
               i < j => Cardinality(Meetings(ret.rounds, given[i], given[j])) = 1
        /\ Cardinality(PairSlots(ret.rounds)) = (N * (N - 1)) \div 2

\* C2: in every returned round each participant occurs exactly once, in one
\* pairing or as the bye.
C2_RoundValidity ==
    (Returned /\ N >= 2) =>
        \A r \in 1..Len(ret.rounds) : \A p \in Participants :
            Occurrences(ret.rounds, ret.byes_per_round, r, p) = 1

ExpectedRounds(n) == IF n < 2 THEN 0 ELSE IF n % 2 = 0 THEN n - 1 ELSE n

\* C3: the call runs through (the working list is even, at least 2 long and
\* num_players is its length while the loop runs) and returns 0 rounds for
\* N < 2, N - 1 for even N, N for odd N, with one byes entry per round.
C3_ScheduleLength ==
    /\ pc = "loop" =>
           /\ players_list \in 1..Len(heap)
           /\ num_players = Len(heap[players_list])
           /\ num_players >= 2
           /\ num_players % 2 = 0
           /\ Len(rounds) = round_num
    /\ Returned =>
           /\ Len(ret.rounds) = ExpectedRounds(N)
           /\ Len(ret.byes_per_round) = Len(ret.rounds)

C3_Witness ==
    Returned /\ N = 3 /\ Len(ret.rounds) = 3 /\ Len(ret.byes_per_round) = 3

\* C4: for odd N >= 3 every round has a bye that is a supplied participant,
\* and every participant is the bye of exactly one round.
C4_ByeOdd ==
    (Returned /\ N >= 3 /\ N % 2 = 1) =>
        /\ \A r \in 1..Len(ret.byes_per_round) :
               ret.byes_per_round[r] # "" /\ ret.byes_per_round[r] \in Participants
        /\ \A p \in Participants :
               Cardinality({r \in 1..Len(ret.byes_per_round) :
                                ret.byes_per_round[r] = p}) = 1

\* C5: for even N >= 2 no round has a bye and every round has N/2 pairings.
C5_ByeEven ==
    (Returned /\ N >= 2 /\ N % 2 = 0) =>
        \A r \in 1..Len(ret.rounds) :
            ret.byes_per_round[r] = "" /\ Len(ret.rounds[r]) = N \div 2

ABCD == <<"Alice", "Bob", "Charlie", "David">>

\* C6 as stated: Round 2 = Alice-Charlie, David-Bob; Round 3 = Alice-Bob,
\* Charlie-David.
C6_ScenarioAsStated ==
    (Returned /\ given = ABCD) =>
        /\ ret.rounds = << << <<"Alice", "David">>, <<"Bob", "Charlie">> >>,
                           << <<"Alice", "Charlie">>, <<"David", "Bob">> >>,
                           << <<"Alice", "Bob">>, <<"Charlie", "David">> >> >>
        /\ ret.byes_per_round = <<"", "", "">>

\* C6 amended: for [Alice, Bob, Charlie, David] the schedule has 3 rounds of 2
\* pairings and no byes: Round 1 = Alice-David, Bob-Charlie; Round 2 =
\* Alice-Bob, Charlie-David; Round 3 = Alice-Charlie, David-Bob.
C6_Scenario ==
    (Returned /\ given = ABCD) =>
        /\ ret.rounds = << << <<"Alice", "David">>, <<"Bob", "Charlie">> >>,
                           << <<"Alice", "Bob">>, <<"Charlie", "David">> >>,
                           << <<"Alice", "Charlie">>, <<"David", "Bob">> >> >>
        /\ ret.byes_per_round = <<"", "", "">>

C6_Witness == Returned /\ given = ABCD /\ Len(ret.rounds) = 3

\* C7: the caller's list object is never changed, and every call on it
\* returns what the first call returned.
C7_Purity ==
    /\ heap[1] = given
    /\ Returned => ret = first

C7_Witness == Returned /\ calls = 2 /\ N = 4 /\ ret.rounds # <<>>

FirstOfFirst(R, r, p) == R[r] # <<>> /\ R[r][1][1] = p

\* C9: position 0 of the working list is the first supplied participant in
\* every iteration; in every round that participant is the first member of
\* the first pairing (every round for even N) or the bye, and for odd N it is
\* the bye of the first round.
C9_FixedFirst ==
    /\ pc = "loop" => heap[players_list][1] = given[1]
    /\ (Returned /\ N >= 2) =>
           /\ \A r \in 1..Len(ret.rounds) :
                  \/ FirstOfFirst(ret.rounds, r, given[1])
                  \/ ret.byes_per_round[r] = given[1]
           /\ N % 2 = 0 =>
                  \A r \in 1..Len(ret.rounds) : FirstOfFirst(ret.rounds, r, given[1])
           /\ N % 2 = 1 => ret.byes_per_round[1] = given[1]

\* the name q gives to the participant p calls x; "" (no bye) stays ""
RenameTo(p, q, x) ==
    IF \E i \in 1..Len(p) : p[i] = x
    THEN q[CHOOSE i \in 1..Len(p) : p[i] = x]
    ELSE x

RenameSchedule(p, q, res) ==
    [rounds |->
         [r \in 1..Len(res.rounds) |->
              [k \in 1..Len(res.rounds[r]) |->
                   <<RenameTo(p, q, res.rounds[r][k][1]),
                     RenameTo(p, q, res.rounds[r][k][2])>>]],
     byes_per_round |->
         [r \in 1..Len(res.byes_per_round) |->
              RenameTo(p, q, res.byes_per_round[r])]]

\* C10: the schedule depends only on positions: renaming the participants
\* position by position to any other list of distinct names of the same
\* length gives that list's schedule; every supplied participant takes part
\* in pairings, and only supplied participants appear in pairings and byes.
C10_Opaque ==
    (Returned /\ N >= 2) =>
        /\ \A q \in InjSeqs(Names, N) :
               RenameSchedule(given, q, ret) = generate_round_robin(q)
        /\ \A p \in Participants :
               \E s \in PairSlots(ret.rounds) :
                   p \in {ret.rounds[s[1]][s[2]][1], ret.rounds[s[1]][s[2]][2]}
        /\ \A s \in PairSlots(ret.rounds) :
               {ret.rounds[s[1]][s[2]][1], ret.rounds[s[1]][s[2]][2]}
                   \subseteq Participants
        /\ \A r \in 1..Len(ret.byes_per_round) :
               ret.byes_per_round[r] \in Participants \cup {""}

-----------------------------------------------------------------------------
(* Properties of handle_message, checked under SpecMsg *)

Replied == pc = "replied"

\* indices of the names that are the first of their spelling, ignoring case
FirstIdxs(names) ==
    {i \in 1..Len(names) : \A j \in 1..(i - 1) : lower(names[j]) # lower(names[i])}

\* the k-th smallest element of a set of numbers
Kth(S, k) == CHOOSE x \in S : Cardinality({y \in S : y < x}) = k - 1

\* the names at their first occurrences, in message order
FirstOccurrences(names) ==
    [k \in 1..Cardinality(FirstIdxs(names)) |-> names[Kth(FirstIdxs(names), k)]]

Trimmed(name) == name # <<>> /\ name[1] # " " /\ name[Len(name)] # " "

====
